---- MODULE Spec2Model ----
(***************************************************************************)
(* Model of detect_ssid.cpp: the wifi_reader node.  At startup it selects  *)
(* the wireless interface (get_wireless_interface_name), then loops while  *)
(* ros::ok(): scan the visible networks into ssid_list.txt                 *)
(* (ssid_network_scan), search the file for the phone network name         *)
(* (search_for_phone_ssid), publish the result, sleep until the next tick. *)
(*                                                                         *)
(* Strings are sequences of one-character strings.  A character read at or *)
(* past the terminating zero of a C string is NUL.                         *)
(***************************************************************************)
EXTENDS Integers, Sequences, FiniteSets, TLC

VARIABLES
    pc,                 \* position of main
    ifaddr,             \* what getifaddrs yields, Freed after freeifaddrs
    ifa,                \* walk pointer of get_wireless_interface_name: index in ifaddr, 0 = NULL
    rc,                 \* return value of get_wireless_interface_name, read at pc = "ret"
    wifiname,           \* main's wifiname
    ok,                 \* what ros::ok() returns
    file,               \* ssid_list.txt
    scanOut,            \* what the scan of the current cycle did
    phone_network_name, \* main's phone_network_name, reused by all cycles
    found,              \* return value of the last search_for_phone_ssid call
    msg,                \* msg.data of the current iteration
    report,             \* the last message published on wifiAvailable, NoReport before the first
    scanned,            \* a scan has been invoked in this run
    pubSinceScan,       \* number of publishes since the last scan invocation
    exitCode            \* return value of main, -1 while it runs

vars == <<pc, ifaddr, ifa, rc, wifiname, ok, file, scanOut, phone_network_name,
          found, msg, report, scanned, pubSinceScan, exitCode>>

----------------------------------------------------------------------------
(* Bounds of the model *)

\* longest interface enumeration
MaxIfaces == 2
\* largest number of pieces a scan text is made of
MaxPieces == 3

----------------------------------------------------------------------------
(* Values *)

NUL == ""
npos == -1

\* ssid_list.txt: a file that cannot be opened, a file holding text t
NoFile == [exists |-> FALSE, text |-> <<>>]
FileOf(t) == [exists |-> TRUE, text |-> t]

\* outcomes of one scan invocation
NotScanned == [kind |-> "none", text |-> <<>>]
LaunchFailed == [kind |-> "failed", text |-> <<>>]
ScanWrote(t) == [kind |-> "ran", text |-> t]

\* what has last been published
NoReport == [sent |-> FALSE, data |-> <<>>]
ReportOf(d) == [sent |-> TRUE, data |-> d]

\* outcomes of getifaddrs, and the list after freeifaddrs
GetifaddrsFails == [state |-> "fails", list |-> <<>>]
Freed == [state |-> "freed", list |-> <<>>]
Enumerated(l) == [state |-> "list", list |-> l]

\* phone_artifact_ssid in main
phone_artifact_ssid == <<"P","i","x","e","l","'"," ","h","e","c","t","o","r">>

\* the same letters, first one in lower case
lower_case_ssid == <<"p","i","x","e","l","'"," ","h","e","c","t","o","r">>

\* the pieces scan texts are made of
Pieces == {phone_artifact_ssid, lower_case_ssid, <<"1">>, <<"7">>, <<"\n">>}

RECURSIVE TextsOf(_)
TextsOf(n) ==
    IF n = 0 THEN {<<>>}
    ELSE LET shorter == TextsOf(n - 1)
         IN shorter \cup {t \o p : t \in shorter, p \in Pieces}

\* the texts a scan can write to ssid_list.txt
ScanTexts == TextsOf(MaxPieces)

\* interface names and address kinds of the enumerated entries
IfaceNames == {<<"w","l","x","1">>, <<"w","w","x">>, <<"w","l","a","n","0">>,
               <<"w">>, <<"e","l","x">>}

AddrKinds == {"NULL", "AF_INET", "AF_INET6", "AF_PACKET"}

IfaceEntries == [ifa_addr : AddrKinds, ifa_name : IfaceNames]

RECURSIVE ListsOf(_)
ListsOf(n) ==
    IF n = 0 THEN {<<>>}
    ELSE LET shorter == ListsOf(n - 1)
         IN shorter \cup {Append(l, e) : l \in shorter, e \in IfaceEntries}

Enumerations == {Enumerated(l) : l \in ListsOf(MaxIfaces)} \cup {GetifaddrsFails}

----------------------------------------------------------------------------
(* Library functions, as the code uses them *)

\* s[k] of a C string, k counted from 0.  ifa_name points into the name
\* buffer of the getifaddrs storage, IF_NAMESIZE long and zero-filled, so the
\* characters after the terminating zero of a short name read as NUL.
CharAt(s, k) == IF k < Len(s) THEN s[k + 1] ELSE NUL

\* substr started one character late
substr_from_next(s, pos, n) ==
    SubSeq(s, pos + 2, IF pos + 1 + n > Len(s) THEN Len(s) ELSE pos + 1 + n)

\* std::string::substr(pos, n): at most n characters from pos, clamped at the end
substr(s, pos, n) ==
    SubSeq(s, pos + 1, IF pos + n > Len(s) THEN Len(s) ELSE pos + n)

RECURSIVE FindFrom(_, _, _)
FindFrom(s, p, i) ==
    IF i + Len(p) > Len(s) THEN npos
    ELSE IF SubSeq(s, i + 1, i + Len(p)) = p THEN i
    ELSE FindFrom(s, p, i + 1)

RECURSIVE RFindFrom(_, _, _)
RFindFrom(s, p, i) ==
    IF i < 0 THEN npos
    ELSE IF SubSeq(s, i + 1, i + Len(p)) = p THEN i
    ELSE RFindFrom(s, p, i - 1)

\* rfind in place of find: offset of the last occurrence, or npos
rfind(s, p) == RFindFrom(s, p, Len(s) - Len(p))

\* std::string::find(const char*): offset of the first occurrence, or npos
find(s, p) == FindFrom(s, p, 0)

----------------------------------------------------------------------------
(* get_wireless_interface_name *)

\* the walk with the test of the first character only
RECURSIVE WalkFirstW(_, _)
WalkFirstW(list, k) ==
    IF k > Len(list) THEN 0
    ELSE IF list[k].ifa_addr = "NULL" THEN WalkFirstW(list, k + 1)
    ELSE IF /\ list[k].ifa_addr \in {"AF_INET", "AF_INET6"}
            /\ CharAt(list[k].ifa_name, 0) = "w"
         THEN k
    ELSE WalkFirstW(list, k + 1)

\* the for loop: the entry the walk stops at, 0 when it runs off the list
RECURSIVE WalkFrom(_, _)
WalkFrom(list, k) ==
    IF k > Len(list) THEN 0
    ELSE IF list[k].ifa_addr = "NULL" THEN WalkFrom(list, k + 1)
    ELSE IF /\ list[k].ifa_addr \in {"AF_INET", "AF_INET6"}
            /\ CharAt(list[k].ifa_name, 0) = "w"
            /\ CharAt(list[k].ifa_name, 2) = "x"
         THEN k
    ELSE WalkFrom(list, k + 1)

\* getifaddrs and the walk over the list
Walk ==
    /\ pc = "start"
    /\ IF ifaddr.state = "fails"
       THEN /\ rc' = -1
            /\ pc' = "ret"
            /\ UNCHANGED <<ifa, wifiname>>
       ELSE /\ ifa' = WalkFrom(ifaddr.list, 1)
            /\ wifiname' = IF ifa' # 0 THEN ifaddr.list[ifa'].ifa_name ELSE wifiname
            /\ pc' = "free"
            /\ rc' = rc
    /\ UNCHANGED <<ifaddr, ok, file, scanOut, phone_network_name, found, msg,
                   report, scanned, pubSinceScan, exitCode>>

\* freeifaddrs and the return
FreeReturn ==
    /\ pc = "free"
    /\ ifaddr' = Freed
    /\ rc' = IF ifa = 0 THEN -1 ELSE 0
    /\ pc' = "ret"
    /\ UNCHANGED <<ifa, wifiname, ok, file, scanOut, phone_network_name, found,
                   msg, report, scanned, pubSinceScan, exitCode>>

----------------------------------------------------------------------------
(* main *)

\* the branch with the return value ignored: the loop is always entered
BranchIgnoresFailure ==
    /\ pc = "ret"
    /\ pc' = "check"
    /\ UNCHANGED <<ifaddr, ifa, rc, wifiname, ok, file, scanOut,
                   phone_network_name, found, msg, report, scanned,
                   pubSinceScan, exitCode>>

\* if(get_wireless_interface_name(wifiname) != 0) return 1
Branch ==
    /\ pc = "ret"
    /\ IF rc # 0
       THEN pc' = "exit1" /\ exitCode' = 1
       ELSE pc' = "check" /\ exitCode' = exitCode
    /\ UNCHANGED <<ifaddr, ifa, rc, wifiname, ok, file, scanOut,
                   phone_network_name, found, msg, report, scanned, pubSinceScan>>

\* the loop condition as ros::ok() && !found: a match ends the loop
CheckStopsWhenFound ==
    /\ pc = "check"
    /\ IF ok /\ ~found
       THEN /\ pc' = "scan"
            /\ msg' = <<>>
            /\ scanOut' = NotScanned
            /\ exitCode' = exitCode
       ELSE /\ pc' = "exit0"
            /\ exitCode' = 0
            /\ UNCHANGED <<msg, scanOut>>
    /\ UNCHANGED <<ifaddr, ifa, rc, wifiname, ok, file, phone_network_name,
                   found, report, scanned, pubSinceScan>>

\* while (ros::ok()) { std_msgs::String msg; ... } return 0
Check ==
    /\ pc = "check"
    /\ IF ok
       THEN /\ pc' = "scan"
            /\ msg' = <<>>
            /\ scanOut' = NotScanned
            /\ exitCode' = exitCode
       ELSE /\ pc' = "exit0"
            /\ exitCode' = 0
            /\ UNCHANGED <<msg, scanOut>>
    /\ UNCHANGED <<ifaddr, ifa, rc, wifiname, ok, file, phone_network_name,
                   found, report, scanned, pubSinceScan>>

\* ssid_network_scan: the command runs and the shell rewrites ssid_list.txt
ScanRuns ==
    /\ pc = "scan"
    /\ \E t \in ScanTexts :
          /\ file' = FileOf(t)
          /\ scanOut' = ScanWrote(t)
    /\ scanned' = TRUE
    /\ pubSinceScan' = 0
    /\ pc' = "match"
    /\ UNCHANGED <<ifaddr, ifa, rc, wifiname, ok, phone_network_name, found,
                   msg, report, exitCode>>

\* ssid_network_scan: system() fails before the command runs; its return
\* value is not looked at and the file is left as it was
ScanNotLaunched ==
    /\ pc = "scan"
    /\ scanOut' = LaunchFailed
    /\ scanned' = TRUE
    /\ pubSinceScan' = 0
    /\ pc' = "match"
    /\ UNCHANGED <<ifaddr, ifa, rc, wifiname, ok, file, phone_network_name,
                   found, msg, report, exitCode>>

\* search_for_phone_ssid taking one trailing character in place of two
search_prefix_plus_one(contents, target, phone_network) ==
    IF ~contents.exists THEN [ret |-> FALSE, phone_network |-> <<>>]
    ELSE LET at == find(contents.text, target)
         IN IF at # npos
            THEN [ret |-> TRUE,
                  phone_network |-> substr(contents.text, at, Len(target) + 1)]
            ELSE [ret |-> FALSE, phone_network |-> <<>>]

\* search_for_phone_ssid without phone_network.clear()
search_without_clear(contents, target, phone_network) ==
    IF ~contents.exists THEN [ret |-> FALSE, phone_network |-> phone_network]
    ELSE LET at == find(contents.text, target)
         IN IF at # npos
            THEN [ret |-> TRUE,
                  phone_network |-> substr(contents.text, at, Len(target) + 2)]
            ELSE [ret |-> FALSE, phone_network |-> phone_network]

\* search_for_phone_ssid: [ret, phone_network] for a file and a target
search_for_phone_ssid(contents, target, phone_network) ==
    LET cleared == <<>>
    IN IF ~contents.exists THEN [ret |-> FALSE, phone_network |-> cleared]
       ELSE LET file_contents == contents.text
                at == find(file_contents, target)
            IN IF at # npos
               THEN [ret |-> TRUE,
                     phone_network |-> substr(file_contents, at, Len(target) + 2)]
               ELSE [ret |-> FALSE, phone_network |-> cleared]

\* the loop body with publish inside the if: nothing is published on no match
MatchPublishOnlyIfFound ==
    /\ pc = "match"
    /\ LET r == search_for_phone_ssid(file, phone_artifact_ssid, phone_network_name)
       IN /\ found' = r.ret
          /\ phone_network_name' = r.phone_network
          /\ msg' = IF r.ret THEN r.phone_network ELSE msg
          /\ pc' = IF r.ret THEN "publish" ELSE "sleep"
    /\ UNCHANGED <<ifaddr, ifa, rc, wifiname, ok, file, scanOut, report,
                   scanned, pubSinceScan, exitCode>>

\* the if/else around search_for_phone_ssid in the loop body
Match ==
    /\ pc = "match"
    /\ LET r == search_for_phone_ssid(file, phone_artifact_ssid, phone_network_name)
       IN /\ found' = r.ret
          /\ phone_network_name' = r.phone_network
          /\ msg' = IF r.ret THEN r.phone_network ELSE msg
    /\ pc' = "publish"
    /\ UNCHANGED <<ifaddr, ifa, rc, wifiname, ok, file, scanOut, report,
                   scanned, pubSinceScan, exitCode>>

\* chatter_pub.publish(msg)
Publish ==
    /\ pc = "publish"
    /\ report' = ReportOf(msg)
    /\ pubSinceScan' = pubSinceScan + 1
    /\ pc' = "sleep"
    /\ UNCHANGED <<ifaddr, ifa, rc, wifiname, ok, file, scanOut,
                   phone_network_name, found, msg, scanned, exitCode>>

\* ros::spinOnce(); loop_rate.sleep()
Sleep ==
    /\ pc = "sleep"
    /\ pc' = "check"
    /\ UNCHANGED <<ifaddr, ifa, rc, wifiname, ok, file, scanOut,
                   phone_network_name, found, msg, report, scanned,
                   pubSinceScan, exitCode>>

\* the external shutdown signal: from then on ros::ok() is false
Shutdown ==
    /\ ok
    /\ pc \notin {"exit0", "exit1"}
    /\ ok' = FALSE
    /\ UNCHANGED <<pc, ifaddr, ifa, rc, wifiname, file, scanOut,
                   phone_network_name, found, msg, report, scanned,
                   pubSinceScan, exitCode>>

Init ==
    /\ pc = "start"
    /\ ifaddr \in Enumerations
    /\ ifa = 0
    /\ rc = 0
    /\ wifiname = <<>>
    /\ ok = TRUE
    /\ file = NoFile
    /\ scanOut = NotScanned
    /\ phone_network_name = <<>>
    /\ found = FALSE
    /\ msg = <<>>
    /\ report = NoReport
    /\ scanned = FALSE
    /\ pubSinceScan = 0
    /\ exitCode = -1

Next ==
    \/ Walk
    \/ FreeReturn
    \/ Branch
    \/ Check
    \/ ScanRuns
    \/ ScanNotLaunched
    \/ Match
    \/ Publish
    \/ Sleep
    \/ Shutdown

Spec == Init /\ [][Next]_vars

----------------------------------------------------------------------------
(* Reference definitions the properties are stated with *)

\* p occurs in s at offset i (counted from 0), character by character
OccursAt(s, p, i) ==
    /\ i + Len(p) <= Len(s)
    /\ \A k \in 1..Len(p) : s[i + k] = p[k]

Offsets(s, p) == {i \in 0..Len(s) : OccursAt(s, p, i)}

Lowest(S) == CHOOSE i \in S : \A j \in S : i <= j

\* number of characters of s after the occurrence of p at offset i
CharsAfter(s, p, i) == Len(s) - (i + Len(p))

\* the n characters of s from offset i on
Slice(s, i, n) == [k \in 1..n |-> s[i + k]]

\* p and the characters after its occurrence at i, two of them at most
NameAt(s, p, i) ==
    Slice(s, i, Len(p) + (IF CharsAfter(s, p, i) >= 2 THEN 2 ELSE CharsAfter(s, p, i)))

\* the file of this cycle has been searched and is still the one on disk
AfterMatch == pc \in {"publish", "sleep"}

TargetOffsets == Offsets(file.text, phone_artifact_ssid)

\* the positions of the poll loop, in the order of one cycle
LoopPcs == {"check", "scan", "match", "publish", "sleep"}

NextInCycle(p) ==
    CASE p = "check" -> "scan"
      [] p = "scan" -> "match"
      [] p = "match" -> "publish"
      [] p = "publish" -> "sleep"
      [] p = "sleep" -> "check"

\* an entry get_wireless_interface_name is meant to select
IsWireless(e) ==
    /\ e.ifa_addr \in {"AF_INET", "AF_INET6"}
    /\ Len(e.ifa_name) >= 3
    /\ e.ifa_name[1] = "w"
    /\ e.ifa_name[3] = "x"

WirelessAt(l) == {k \in 1..Len(l) : IsWireless(l[k])}

----------------------------------------------------------------------------
(* C1 *)

\* C1 as stated: whenever search_for_phone_ssid reports a match, the network
\* name has length exactly len(phone_artifact_ssid) + 2, also when fewer than
\* two characters are left after the prefix.
C1_LengthAlwaysPrefixPlusTwo ==
    (AfterMatch /\ found) =>
        Len(phone_network_name) = Len(phone_artifact_ssid) + 2

\* C1 amended: whenever a match is reported, the name has length
\* len(prefix) + min(2, number of characters after the first occurrence of the
\* prefix): len + 2 when two or more follow, len + 1 or len when fewer do.
C1_LengthClampedAtEnd ==
    (AfterMatch /\ found) =>
        /\ file.exists
        /\ TargetOffsets # {}
        /\ LET i == Lowest(TargetOffsets)
               rest == CharsAfter(file.text, phone_artifact_ssid, i)
           IN Len(phone_network_name) =
                  Len(phone_artifact_ssid) + (IF rest >= 2 THEN 2 ELSE rest)

\* a match on a prefix with exactly one character left after it
C1_Witness ==
    /\ AfterMatch
    /\ found
    /\ CharsAfter(file.text, phone_artifact_ssid, Lowest(TargetOffsets)) = 1
    /\ Len(phone_network_name) = Len(phone_artifact_ssid) + 1

----------------------------------------------------------------------------
(* C2 *)

\* C2: when the prefix occurs in the scan text followed by at least two more
\* characters, search_for_phone_ssid returns true and the name is the text at
\* [i, i + len(prefix) + 2), verbatim, i being the offset the prefix is found at.
C2_VerbatimPrefixPlusTwo ==
    (/\ AfterMatch
     /\ file.exists
     /\ \E i \in TargetOffsets : CharsAfter(file.text, phone_artifact_ssid, i) >= 2)
    => /\ found
       /\ phone_network_name =
              Slice(file.text, Lowest(TargetOffsets), Len(phone_artifact_ssid) + 2)
       /\ SubSeq(phone_network_name, 1, Len(phone_artifact_ssid)) = phone_artifact_ssid

\* a match whose two trailing characters are no digits
C2_Witness ==
    /\ AfterMatch
    /\ found
    /\ Len(phone_network_name) = Len(phone_artifact_ssid) + 2
    /\ phone_network_name[Len(phone_artifact_ssid) + 1] = "\n"
    /\ phone_network_name[Len(phone_artifact_ssid) + 2] = "p"

----------------------------------------------------------------------------
(* C3 *)

\* C3: when the prefix occurs more than once in the scan text, the match is
\* taken at the lowest offset: name and message are the prefix with the
\* trailing characters of the first occurrence.
C3_FirstOccurrenceOnly ==
    (AfterMatch /\ file.exists /\ Cardinality(TargetOffsets) >= 2) =>
        /\ found
        /\ phone_network_name =
               NameAt(file.text, phone_artifact_ssid, Lowest(TargetOffsets))
        /\ msg = phone_network_name

\* two occurrences with different trailing characters
C3_Witness ==
    /\ AfterMatch
    /\ found
    /\ \E j \in TargetOffsets :
          /\ j # Lowest(TargetOffsets)
          /\ CharsAfter(file.text, phone_artifact_ssid, j) >= 2
          /\ NameAt(file.text, phone_artifact_ssid, j) # phone_network_name

----------------------------------------------------------------------------
(* C4 *)

\* C4: when the scan file cannot be opened or does not contain the prefix as
\* an exact, case-sensitive substring, search_for_phone_ssid returns false
\* and leaves the name empty, and the Report of the cycle is the empty string.
C4_NoMatchEmptyReport ==
    (AfterMatch /\ (~file.exists \/ TargetOffsets = {})) =>
        /\ found = FALSE
        /\ phone_network_name = <<>>
        /\ msg = <<>>
        /\ (pc = "sleep" => report = ReportOf(<<>>))

\* a cycle without the prefix (the lower-case spelling only) right after a
\* cycle that published a match
C4_Witness ==
    /\ pc = "publish"
    /\ report.sent
    /\ report.data # <<>>
    /\ file.exists
    /\ Offsets(file.text, lower_case_ssid) # {}
    /\ TargetOffsets = {}
    /\ phone_network_name = <<>>

----------------------------------------------------------------------------
(* C5 *)

\* C5: in a cycle whose scan cannot be launched the Report published is the
\* empty string, whatever the earlier cycles found.
C5_LaunchFailureReportsEmpty ==
    (pc = "sleep" /\ scanOut = LaunchFailed) => report = ReportOf(<<>>)

----------------------------------------------------------------------------
(* C6 *)

\* C6: if interface selection fails, main returns 1 and the poll loop is never
\* entered: no scan is invoked and no Report is published.
C6_SelectionFailureIsFatal ==
    /\ (pc # "start" /\ pc # "free" /\ rc # 0) =>
           /\ pc \in {"ret", "exit1"}
           /\ ~scanned
           /\ ~report.sent
    /\ pc = "exit1" => (rc # 0 /\ exitCode = 1)
    /\ exitCode = 1 => pc = "exit1"

\* the process has ended on a failed selection
C6_Witness ==
    /\ pc = "exit1"
    /\ exitCode = 1
    /\ rc = -1
    /\ ifaddr = Freed

----------------------------------------------------------------------------
(* C7 *)

\* C7: get_wireless_interface_name returns 0 exactly when the enumeration
\* holds an entry with an AF_INET or AF_INET6 address whose name has 'w' first
\* and 'x' third, and the name is then that of the first such entry; otherwise
\* (getifaddrs fails, or no such entry) it returns -1 and the name is unchanged.
C7_Step ==
    /\ (pc = "start" /\ pc' = "ret") =>
           /\ ifaddr.state = "fails"
           /\ rc' = -1
           /\ wifiname' = <<>>
    /\ (pc = "free" /\ pc' = "ret") =>
           LET W == WirelessAt(ifaddr.list)
           IN /\ ifaddr.state = "list"
              /\ rc' \in {0, -1}
              /\ rc' = 0 <=> W # {}
              /\ W # {} => wifiname' = ifaddr.list[Lowest(W)].ifa_name
              /\ W = {} => wifiname' = <<>>

----------------------------------------------------------------------------
(* C8 *)

\* C8: the loop goes scan, match, publish, wait, in that order: a Report is
\* published only at the publish position, once per scan, and no scan starts
\* before the Report of the previous cycle has been published.
C8_Step ==
    /\ (pc \in LoopPcs /\ pc' # pc) =>
           \/ pc' = NextInCycle(pc)
           \/ pc = "check" /\ pc' = "exit0"
    /\ (report' # report \/ pubSinceScan' = pubSinceScan + 1) =>
           /\ pc = "publish"
           /\ pc' = "sleep"
           /\ scanned
           /\ pubSinceScan = 0
           /\ pubSinceScan' = 1
           /\ report'.sent
    /\ (pc = "publish" /\ pc' = "sleep") => pubSinceScan' = pubSinceScan + 1
    /\ (pc = "scan" /\ pc' = "match") => (scanned => pubSinceScan = 1)

C8_OneReportPerCycle == [][C8_Step]_vars

\* the scan of a second cycle has been invoked
C8_Witness ==
    /\ pc = "match"
    /\ report.sent
    /\ pubSinceScan = 0

----------------------------------------------------------------------------
(* C9 *)

\* C9: the Report published in a cycle is determined by the scan output of
\* that cycle only: a name is published only when this cycle's scan wrote it.
C9_ReportFromThisCycleOnly ==
    (pc = "sleep" /\ report.data # <<>>) =>
        /\ scanOut.kind = "ran"
        /\ Offsets(scanOut.text, phone_artifact_ssid) # {}
        /\ report.data = NameAt(scanOut.text, phone_artifact_ssid,
                                Lowest(Offsets(scanOut.text, phone_artifact_ssid)))

----------------------------------------------------------------------------
(* C10 *)

\* C10: once the interface is selected no cycle outcome ends the loop: every
\* position of the loop has a next step, the loop is left only from the loop
\* condition with ros::ok() false, and main then returns 0, the Report of
\* every cycle that was started having been published.
C10_Step ==
    (pc \in LoopPcs /\ pc' \notin LoopPcs) =>
        /\ pc = "check"
        /\ ~ok
        /\ pc' = "exit0"
        /\ exitCode' = 0
        /\ scanned => pubSinceScan = 1

C10_LoopGoesOn ==
    /\ (pc \in LoopPcs /\ (ok \/ pc # "check")) =>
           ENABLED (Next /\ pc' \in LoopPcs /\ pc' # pc)
    /\ pc = "exit0" => exitCode = 0
    /\ (pc \in LoopPcs \/ pc = "exit0") => rc = 0

C10_LoopEndsOnlyOnShutdown == [][C10_Step]_vars /\ []C10_LoopGoesOn

\* main has returned 0 after a cycle that published a match
C10_Witness ==
    /\ pc = "exit0"
    /\ exitCode = 0
    /\ ~ok
    /\ found
    /\ report = ReportOf(phone_network_name)

====
